---- MODULE Spec2Model ----
(***************************************************************************)
(* Model of the yt content-ingestion utilities: the VTT subtitle parser of *)
(* the transcript extractor, TranscriptSegment construction, and the       *)
(* tenacity retry wrappers around the remote operations.                   *)
(*                                                                         *)
(* Text is modelled as a sequence of tokens.  A token is one character     *)
(* (" ", "<", ">", "x", "y", "c") or one literal the code looks for as a   *)
(* whole: "-->", the headers "WEBVTT" and "Kind:", the annotation          *)
(* "align:start position:NN%" (token "A") and a well-formed HH:MM:SS.mmm   *)
(* timestamp (tokens "t0".."t3", see Stamp).  Times are integers in        *)
(* milliseconds (the code's float seconds times 1000).                     *)
(***************************************************************************)
EXTENDS Integers, Sequences, FiniteSets, TLC

VARIABLES
    lines,      \* _parse_vtt_content: vtt_content.split('\n')
    i,          \* _parse_vtt_content: the line cursor (0-based, as in the code)
    segments,   \* the TranscriptSegment objects that exist, in construction order
    pc,         \* position of the running operation
    spins,      \* loop iterations executed since the cursor last moved
    err,        \* type of the exception delivered to the caller ("" when none)
    args,       \* the arguments of the operation called last
    op,         \* the operation called last ("" when none)
    attempt,    \* tenacity's retry_state.attempt_number
    cause,      \* what happened inside the body of the last attempt
    last,       \* the exception the last attempt ended with (retry_state.outcome)
    sleeps,     \* the backoff delays slept so far, in seconds
    log,        \* the entries _log_retry_attempt has written
    conv,       \* position of the running convert_pdf ("" when none)
    ran,        \* the conversions convert_pdf has called, in order
    tmpdirs,    \* the temporary directories that exist
    mktemp,     \* number of temporary directories created so far
    out         \* the value the last pure operation returned

vttVars == <<lines, i, spins>>
retryVars == <<op, attempt, cause, last, sleeps, log>>
convVars == <<conv, ran>>
tmpVars == <<tmpdirs, mktemp>>
vars == <<lines, i, segments, pc, spins, err, args, op, attempt, cause, last,
          sleeps, log, conv, ran, tmpdirs, mktemp, out>>

\* no exception
NoExc == [type |-> "", msg |-> {}]

(***************************************************************************)
(* Bounds of the model.                                                    *)
(***************************************************************************)
MaxLines == 4
MaxSpin == 2

(***************************************************************************)
(* Strings.                                                                *)
(***************************************************************************)
RECURSIVE LStrip(_)
LStrip(s) == IF s # <<>> /\ Head(s) = " " THEN LStrip(Tail(s)) ELSE s

RECURSIVE RStrip(_)
RStrip(s) ==
    IF s # <<>> /\ s[Len(s)] = " " THEN RStrip(SubSeq(s, 1, Len(s) - 1)) ELSE s

\* str.strip()
Strip(s) == RStrip(LStrip(s))

\* `tok in s`
Contains(s, tok) == \E k \in 1..Len(s) : s[k] = tok

\* index of the first ">" of s at or after position k, 0 when there is none
RECURSIVE FirstClose(_, _)
FirstClose(s, k) ==
    IF k > Len(s) THEN 0
    ELSE IF s[k] = ">" THEN k
    ELSE FirstClose(s, k + 1)

\* re.sub(r'<[^>]+>', '', s): a "<", at least one character other than ">",
\* and the next ">" are removed, scanning left to right
RECURSIVE StripTags(_)
StripTags(s) ==
    IF s = <<>> THEN <<>>
    ELSE LET q == FirstClose(s, 2)
         IN IF Head(s) = "<" /\ q >= 3
            THEN StripTags(SubSeq(s, q + 1, Len(s)))
            ELSE <<Head(s)>> \o StripTags(Tail(s))

\* re.sub(r'align:start position:\d+%', '', s)
StripAnnotation(s) == SelectSeq(s, LAMBDA c : c # "A")

\* ' '.join(ls)
RECURSIVE Join(_)
Join(ls) ==
    IF ls = <<>> THEN <<>>
    ELSE IF Len(ls) = 1 THEN ls[1]
    ELSE ls[1] \o <<" ">> \o Join(Tail(ls))

(***************************************************************************)
(* Timestamps.                                                             *)
(***************************************************************************)
Stamps == {"t0", "t1", "t2", "t3"}

\* the digit groups <<HH, MM, SS, mmm>> of each timestamp token
Stamp(t) ==
    CASE t = "t0" -> <<0, 0, 0, 0>>        \* 00:00:00.000
      [] t = "t1" -> <<0, 1, 5, 250>>      \* 00:01:05.250
      [] t = "t2" -> <<0, 1, 7, 500>>      \* 00:01:07.500
      [] t = "t3" -> <<1, 0, 2, 0>>        \* 01:00:02.000

\* ToMillis with the minutes not multiplied by 60
ToMillisMinutesAsSeconds(g) == (g[1] * 3600 + g[2] + g[3]) * 1000 + g[4]

\* h * 3600 + m * 60 + s + ms / 1000, in milliseconds
ToMillis(g) == (g[1] * 3600 + g[2] * 60 + g[3]) * 1000 + g[4]

RECURSIVE SkipSpaces(_, _)
SkipSpaces(s, k) ==
    IF k <= Len(s) /\ s[k] = " " THEN SkipSpaces(s, k + 1) ELSE k

\* re.match(r'(\d{2}):(\d{2}):(\d{2})\.(\d{3})\s*-->\s*(\d{2}):...', line):
\* <<first, second>> when the line starts with the pattern, <<>> when not
TimestampMatch(line) ==
    IF line # <<>> /\ line[1] \in Stamps
    THEN LET a == SkipSpaces(line, 2)
         IN IF a <= Len(line) /\ line[a] = "-->"
            THEN LET b == SkipSpaces(line, a + 1)
                 IN IF b <= Len(line) /\ line[b] \in Stamps
                    THEN <<line[1], line[b]>>
                    ELSE <<>>
            ELSE <<>>
    ELSE <<>>

(***************************************************************************)
(* TranscriptSegment.                                                      *)
(***************************************************************************)
\* the absent confidence (None); a given confidence c is <<c>>, in thousandths
NoConfidence == <<>>

\* __post_init__ accepting a duration of zero
PostInitOkZeroDuration(start, duration, confidence) ==
    /\ ~(start < 0)
    /\ ~(duration < 0)
    /\ ~(confidence # NoConfidence
           /\ ~(0 <= confidence[1] /\ confidence[1] <= 1000))

\* TranscriptSegment.__post_init__: TRUE when no ValueError is raised
PostInitOk(start, duration, confidence) ==
    /\ ~(start < 0)
    /\ ~(duration <= 0)
    /\ ~(confidence # NoConfidence
           /\ ~(0 <= confidence[1] /\ confidence[1] <= 1000))

TranscriptSegment(text, start, duration, confidence) ==
    [text |-> text, start |-> start, duration |-> duration,
     confidence |-> confidence]

\* TranscriptSegment.end_time
EndTime(seg) == seg.start + seg.duration

(***************************************************************************)
(* TranscriptExtractor._parse_vtt_content                                  *)
(***************************************************************************)
HeaderTokens == {"WEBVTT", "Kind:", "Language:"}

\* line.startswith('WEBVTT') or line.startswith('Kind:') or ...
IsHeader(line) == line # <<>> /\ line[1] \in HeaderTokens

\* CueEnd without the `'-->' not in lines[i]` condition
RECURSIVE CueEndPastArrow(_, _)
CueEndPastArrow(ls, k) ==
    IF k < Len(ls) /\ Strip(ls[k + 1]) # <<>>
    THEN CueEndPastArrow(ls, k + 1)
    ELSE k

\* CueEnd without the `lines[i].strip()` condition
RECURSIVE CueEndPastBlank(_, _)
CueEndPastBlank(ls, k) ==
    IF k < Len(ls) /\ ~Contains(ls[k + 1], "-->")
    THEN CueEndPastBlank(ls, k + 1)
    ELSE k

\* the inner while: from 0-based index k, the first index whose line is
\* blank after strip() or contains '-->', or len(lines)
RECURSIVE CueEnd(_, _)
CueEnd(ls, k) ==
    IF k < Len(ls) /\ Strip(ls[k + 1]) # <<>> /\ ~Contains(ls[k + 1], "-->")
    THEN CueEnd(ls, k + 1)
    ELSE k

\* one text line of a cue as the inner while cleans it
CleanTextLine(raw) == StripAnnotation(StripTags(Strip(raw)))

\* `if text_line: text_lines.append(text_line)`
KeepTextLine(text_line) == text_line # <<>>

\* text_lines taken from every line up to the end of the input
RECURSIVE TextLinesToEnd(_, _, _)
TextLinesToEnd(ls, from, to) ==
    IF from >= Len(ls) THEN <<>>
    ELSE LET text_line == CleanTextLine(ls[from + 1])
         IN (IF KeepTextLine(text_line) THEN <<text_line>> ELSE <<>>)
                \o TextLinesToEnd(ls, from + 1, to)

\* text_lines of the cue whose text occupies 0-based lines from..to-1
RECURSIVE TextLines(_, _, _)
TextLines(ls, from, to) ==
    IF from >= to THEN <<>>
    ELSE LET text_line == CleanTextLine(ls[from + 1])
         IN (IF KeepTextLine(text_line) THEN <<text_line>> ELSE <<>>)
                \o TextLines(ls, from + 1, to)

\* text = ' '.join(text_lines).strip()
CueText(text_lines) == Strip(Join(text_lines))

\* EmitsSegment without the `if text:` check
EmitsWhenAnyTextLine(text_lines) == text_lines # <<>>

\* `if text_lines:` and `if text:`: the cue is turned into a segment
EmitsSegment(text_lines) == text_lines # <<>> /\ CueText(text_lines) # <<>>

CurLine == Strip(lines[i + 1])

\* the lines a caption file can hold
Palette ==
    { <<"WEBVTT">>,
      <<"Kind:", " ", "x">>,
      <<>>,
      <<" ">>,
      <<"t0", " ", "-->", " ", "t3">>,
      <<"t1", "-->", "t2", " ", "A">>,
      <<"t2", " ", "-->", " ", "t1">>,
      <<"x", "-->", "x">>,
      <<"x">>,
      <<"<", "c", ">", "y">>,
      <<"x", " ", "<", "c", ">">>,
      <<"A">>,
      <<"<", "c", ">", " ", "<", "c", ">">> }

\* str.split('\n') yields at least one line
VttInputs == UNION { [1..n -> Palette] : n \in 1..MaxLines }

InitVtt ==
    /\ lines \in VttInputs
    /\ i = 0
    /\ segments = <<>>
    /\ pc = "scan"
    /\ spins = 0
    /\ err = ""
    /\ args = <<>>
    /\ op = ""
    /\ attempt = 0
    /\ cause = ""
    /\ last = NoExc
    /\ sleeps = <<>>
    /\ log = <<>>
    /\ conv = ""
    /\ ran = <<>>
    /\ tmpdirs = {}
    /\ mktemp = 0
    /\ out = <<>>

\* lines 204-206: a header or metadata line is skipped
ScanHeader ==
    /\ pc = "scan"
    /\ UNCHANGED <<args, retryVars, convVars, tmpVars, out>>
    /\ i < Len(lines)
    /\ IsHeader(CurLine)
    /\ i' = i + 1
    /\ spins' = 0
    /\ UNCHANGED <<lines, segments, pc, err>>

\* lines 209-248: a line with '-->' that matches the timestamp pattern
ScanCue ==
    /\ pc = "scan"
    /\ UNCHANGED <<args, retryVars, convVars, tmpVars, out>>
    /\ i < Len(lines)
    /\ ~IsHeader(CurLine)
    /\ Contains(CurLine, "-->")
    /\ TimestampMatch(CurLine) # <<>>
    /\ LET m == TimestampMatch(CurLine)
           start_time == ToMillis(Stamp(m[1]))
           end_time == ToMillis(Stamp(m[2]))
           duration == end_time - start_time
           stop == CueEnd(lines, i + 1)
           text_lines == TextLines(lines, i + 1, stop)
       IN IF EmitsSegment(text_lines)
          THEN IF PostInitOk(start_time, duration, NoConfidence)
               THEN /\ segments' = Append(segments,
                            TranscriptSegment(CueText(text_lines), start_time,
                                              duration, NoConfidence))
                    /\ i' = stop
                    /\ spins' = 0
                    /\ UNCHANGED <<pc, err>>
               ELSE \* __post_init__ raises and nothing in the parser catches it
                    /\ pc' = "raised"
                    /\ err' = "ValueError"
                    /\ i' = stop
                    /\ UNCHANGED <<segments, spins>>
          ELSE /\ i' = stop
               /\ spins' = 0
               /\ UNCHANGED <<segments, pc, err>>
    /\ UNCHANGED lines

\* lines 209-216: a line with '-->' that does not match: no branch of the
\* iteration touches i (the `else: i += 1` belongs to `if '-->' in line`)
ScanUnmatchedArrow ==
    /\ pc = "scan"
    /\ UNCHANGED <<args, retryVars, convVars, tmpVars, out>>
    /\ i < Len(lines)
    /\ ~IsHeader(CurLine)
    /\ Contains(CurLine, "-->")
    /\ TimestampMatch(CurLine) = <<>>
    /\ spins < MaxSpin
    /\ spins' = spins + 1
    /\ UNCHANGED <<lines, i, segments, pc, err>>

\* lines 249-250: any other line
ScanOther ==
    /\ pc = "scan"
    /\ UNCHANGED <<args, retryVars, convVars, tmpVars, out>>
    /\ i < Len(lines)
    /\ ~IsHeader(CurLine)
    /\ ~Contains(CurLine, "-->")
    /\ i' = i + 1
    /\ spins' = 0
    /\ UNCHANGED <<lines, segments, pc, err>>

\* line 200 false, line 252: return segments
ParseReturn ==
    /\ pc = "scan"
    /\ UNCHANGED <<args, retryVars, convVars, tmpVars, out>>
    /\ ~(i < Len(lines))
    /\ pc' = "done"
    /\ UNCHANGED <<lines, i, segments, spins, err>>

NextVtt ==
    \/ ScanHeader
    \/ ScanCue
    \/ ScanUnmatchedArrow
    \/ ScanOther
    \/ ParseReturn

SpecVtt == InitVtt /\ [][NextVtt]_vars

(***************************************************************************)
(* Claims about _parse_vtt_content, checked under SpecVtt.                 *)
(***************************************************************************)
\* a line with '-->' that does not match the timestamp pattern
UnmatchedArrow(raw) ==
    /\ ~IsHeader(Strip(raw))
    /\ Contains(Strip(raw), "-->")
    /\ TimestampMatch(Strip(raw)) = <<>>

\* a timestamp line of a cue
IsCueLine(raw) ==
    /\ ~IsHeader(Strip(raw))
    /\ Contains(Strip(raw), "-->")
    /\ TimestampMatch(Strip(raw)) # <<>>

\* the visible characters of a text line: no tags, no annotation, no spaces
Visible(raw) ==
    SelectSeq(StripAnnotation(StripTags(raw)), LAMBDA c : c # " ")

\* 0-based index of the line that ends the text of the cue at 0-based k:
\* the first blank line or line with '-->' after k, or the end of input
RECURSIVE TextStop(_, _)
TextStop(ls, k) ==
    IF k >= Len(ls) THEN Len(ls)
    ELSE IF Strip(ls[k + 1]) = <<>> \/ Contains(ls[k + 1], "-->") THEN k
    ELSE TextStop(ls, k + 1)

RECURSIVE VisibleOf(_, _, _)
VisibleOf(ls, from, to) ==
    IF from >= to THEN <<>>
    ELSE Visible(ls[from + 1]) \o VisibleOf(ls, from + 1, to)

\* the visible characters of the cue whose timestamp line is 0-based k
CueVisible(ls, k) == VisibleOf(ls, k + 1, TextStop(ls, k + 1))

\* the claim's conversion, in milliseconds
ClaimMillis(g) == ((g[1] * 60 + g[2]) * 60 + g[3]) * 1000 + g[4]

CueStart(raw) == ClaimMillis(Stamp(TimestampMatch(Strip(raw))[1]))
CueStop(raw) == ClaimMillis(Stamp(TimestampMatch(Strip(raw))[2]))

\* 0-based indices of the timestamp lines, in source order
RECURSIVE CueIndices(_, _)
CueIndices(ls, k) ==
    IF k >= Len(ls) THEN <<>>
    ELSE (IF IsCueLine(ls[k + 1]) THEN <<k>> ELSE <<>>) \o CueIndices(ls, k + 1)

\* every line with '-->' is a timestamp line whose end is after its start and
\* whose cue has visible text
WellFormedVtt(ls) ==
    \A k \in 0..(Len(ls) - 1) :
        Contains(ls[k + 1], "-->") =>
            /\ IsCueLine(ls[k + 1])
            /\ CueStop(ls[k + 1]) > CueStart(ls[k + 1])
            /\ CueVisible(ls, k) # <<>>

NoSpaces(s) == SelectSeq(s, LAMBDA c : c # " ")

\* C1: every iteration of the scan loop strictly advances the line cursor,
\* so the loop ends after at most len(lines) iterations.
C1_EveryIterationAdvances ==
    [][(pc = "scan" /\ i < Len(lines)) => i' > i]_vars

\* C2: an iteration on a line with '-->' that does not match the timestamp
\* pattern moves on to the next line, emits nothing and raises nothing.
C2_UnmatchedArrowSkipped ==
    [][(pc = "scan" /\ i < Len(lines) /\ UnmatchedArrow(lines[i + 1]))
          => (i' = i + 1 /\ segments' = segments /\ pc' = "scan")]_vars

\* C3: for a well-formed input with N cues the parser returns exactly N
\* segments, the j-th carrying the timing and the visible text of the j-th
\* cue in source order.
C3_OneSegmentPerCueInOrder ==
    (pc = "done" /\ WellFormedVtt(lines)) =>
        LET cues == CueIndices(lines, 0)
        IN /\ Len(segments) = Len(cues)
           /\ \A j \in 1..Len(cues) :
                /\ segments[j].start = CueStart(lines[cues[j] + 1])
                /\ segments[j].duration =
                       CueStop(lines[cues[j] + 1]) - CueStart(lines[cues[j] + 1])
                /\ NoSpaces(segments[j].text) = CueVisible(lines, cues[j])

C3_Witness ==
    /\ pc = "done"
    /\ WellFormedVtt(lines)
    /\ Len(CueIndices(lines, 0)) = 2
    /\ Len(segments) = 2
    /\ segments[1].start # segments[2].start
    /\ segments[1].text # segments[2].text

\* C4: the segment emitted for a matched timestamp line H1:M1:S1.ms1 -->
\* H2:M2:S2.ms2 has start ((H1*60+M1)*60+S1)*1000+ms1 ms and duration
\* end - start; 00:01:05.250 --> 00:01:07.500 gives 65250 ms and 2250 ms,
\* also with cue settings after the second timestamp.
C4_StartAndDuration ==
    [][Len(segments') = Len(segments) + 1 =>
          LET seg == segments'[Len(segments')]
              m == TimestampMatch(Strip(lines[i + 1]))
          IN /\ m # <<>>
             /\ seg.start = ClaimMillis(Stamp(m[1]))
             /\ seg.duration = ClaimMillis(Stamp(m[2])) - seg.start
             /\ (m = <<"t1", "t2">> =>
                    seg.start = 65250 /\ seg.duration = 2250)]_vars

C4_Witness ==
    /\ pc = "done"
    /\ \E k \in 1..Len(lines) : lines[k] = <<"t1", "-->", "t2", " ", "A">>
    /\ \E j \in 1..Len(segments) :
          segments[j].start = 65250 /\ segments[j].duration = 2250
    /\ \E j \in 1..Len(segments) : segments[j].start = 0

\* the claim's text of a cue: each line has its tags removed, the annotation
\* removed and is then trimmed; empty lines are dropped; the rest is joined
\* with single spaces
RECURSIVE ClaimLines(_, _, _)
ClaimLines(ls, from, to) ==
    IF from >= to THEN <<>>
    ELSE LET t == Strip(StripAnnotation(StripTags(ls[from + 1])))
         IN (IF t # <<>> THEN <<t>> ELSE <<>>) \o ClaimLines(ls, from + 1, to)

ClaimText(ls, k) == Join(ClaimLines(ls, k + 1, TextStop(ls, k + 1)))

\* C5: the text of the segment emitted for a cue is the single-space join
\* of its text lines, each stripped of tags and annotation and then trimmed,
\* empty lines dropped.
C5_TextIsJoinOfTrimmedLines ==
    [][Len(segments') = Len(segments) + 1 =>
          segments'[Len(segments')].text = ClaimText(lines, i)]_vars

\* C6: no segment has text that is empty after trimming, and the segments
\* returned are exactly those of the cues that have visible text.
C6_NoEmptyText ==
    /\ \A j \in 1..Len(segments) : Strip(segments[j].text) # <<>>
    /\ pc = "done" =>
          LET cues == SelectSeq(CueIndices(lines, 0),
                                LAMBDA k : CueVisible(lines, k) # <<>>)
          IN /\ Len(segments) = Len(cues)
             /\ \A j \in 1..Len(cues) :
                    NoSpaces(segments[j].text) = CueVisible(lines, cues[j])

C6_Witness ==
    /\ pc = "done"
    /\ Len(CueIndices(lines, 0)) = 2
    /\ CueVisible(lines, CueIndices(lines, 0)[1]) = <<>>
    /\ TextStop(lines, CueIndices(lines, 0)[1] + 1) > CueIndices(lines, 0)[1] + 1
    /\ Len(segments) = 1

\* C7: the parser never raises, whatever the cues of the input are.
C7_ParserNeverRaises == pc # "raised"

(***************************************************************************)
(* Construction of TranscriptSegment objects and text_to_transcript.       *)
(***************************************************************************)
MaxSegs == 2
MaxText == 2

\* every text of up to MaxText characters, and a text of two words
Texts ==
    UNION { [1..n -> {"x", " "}] : n \in 0..MaxText } \cup {<<"x", " ", "x">>}
StartValues == {-1000, 0, 1500}
DurationValues == {-500, 0, 1, 2000}
ConfidenceValues == {NoConfidence, <<-1>>, <<0>>, <<500>>, <<1000>>, <<1001>>}

\* text.count(" "): the number of separators
WordCountSeparators(s) == Len(SelectSeq(s, LAMBDA c : c = " "))

\* len(text.split()): the number of maximal runs of non-space characters
RECURSIVE WordCount(_)
WordCount(s) ==
    IF s = <<>> THEN 0
    ELSE IF Head(s) = " " THEN WordCount(Tail(s))
    ELSE IF Len(s) > 1 /\ s[2] # " " THEN WordCount(Tail(s))
    ELSE 1 + WordCount(Tail(s))

InitSeg ==
    /\ lines = <<>>
    /\ i = 0
    /\ segments = <<>>
    /\ pc = "idle"
    /\ spins = 0
    /\ err = ""
    /\ args = <<>>
    /\ op = ""
    /\ attempt = 0
    /\ cause = ""
    /\ last = NoExc
    /\ sleeps = <<>>
    /\ log = <<>>
    /\ conv = ""
    /\ ran = <<>>
    /\ tmpdirs = {}
    /\ mktemp = 0
    /\ out = <<>>

\* TranscriptSegment(text, start, duration, confidence): the dataclass
\* __init__ followed by __post_init__
Construct(text, start, duration, confidence) ==
    /\ Len(segments) < MaxSegs
    /\ op' = "TranscriptSegment"
    /\ args' = <<text, start, duration, confidence>>
    /\ IF PostInitOk(start, duration, confidence)
       THEN /\ segments' =
                  Append(segments,
                         TranscriptSegment(text, start, duration, confidence))
            /\ pc' = "made"
            /\ err' = ""
       ELSE /\ pc' = "raised"
            /\ err' = "ValueError"
            /\ UNCHANGED segments
    /\ UNCHANGED <<vttVars, attempt, cause, last, sleeps, log, convVars, tmpVars,
                   out>>

\* ContentSummarizer.text_to_transcript
TextToTranscript(text) ==
    /\ Len(segments) < MaxSegs
    /\ op' = "text_to_transcript"
    /\ args' = <<text>>
    /\ LET stripped == Strip(text)
           duration == WordCount(stripped) * 1000
       IN IF stripped = <<>>
          THEN /\ pc' = "raised"
               /\ err' = "ValueError"
               /\ UNCHANGED segments
          ELSE IF PostInitOk(0, duration, NoConfidence)
          THEN /\ segments' =
                     Append(segments,
                            TranscriptSegment(stripped, 0, duration,
                                              NoConfidence))
               /\ pc' = "returned"
               /\ err' = ""
          ELSE /\ pc' = "raised"
               /\ err' = "ValueError"
               /\ UNCHANGED segments
    /\ UNCHANGED <<vttVars, attempt, cause, last, sleeps, log, convVars, tmpVars,
                   out>>

NextSeg ==
    \/ \E text \in {<<>>, <<"x">>}, start \in StartValues,
          duration \in DurationValues, confidence \in ConfidenceValues :
            Construct(text, start, duration, confidence)
    \/ \E text \in Texts : TextToTranscript(text)

SpecSeg == InitSeg /\ [][NextSeg]_vars

\* the values the claim calls violating
Violates(start, duration, confidence) ==
    \/ start < 0
    \/ duration <= 0
    \/ confidence # NoConfidence /\ (confidence[1] < 0 \/ confidence[1] > 1000)

\* C8: every segment that exists has start >= 0, duration > 0 and a
\* confidence that is absent or within 0..1; a construction with a violating
\* value raises ValueError and any other one yields the segment; the
\* segment text_to_transcript returns ends after it starts.
C8_SegmentBounds ==
    /\ \A j \in 1..Len(segments) :
          /\ segments[j].start >= 0
          /\ segments[j].duration > 0
          /\ \/ segments[j].confidence = NoConfidence
             \/ /\ segments[j].confidence[1] >= 0
                /\ segments[j].confidence[1] <= 1000
          /\ EndTime(segments[j]) > segments[j].start
    /\ op = "TranscriptSegment" =>
          IF Violates(args[2], args[3], args[4])
          THEN pc = "raised" /\ err = "ValueError"
          ELSE /\ pc = "made"
               /\ segments[Len(segments)] =
                      TranscriptSegment(args[1], args[2], args[3], args[4])
    /\ (op = "text_to_transcript" /\ pc = "returned") =>
          /\ segments[Len(segments)].start = 0
          /\ segments[Len(segments)].duration >= 1000

\* a construction with duration 0 and an in-range confidence was rejected
\* while an earlier segment with the boundary confidence 1.0 exists
C8_Witness ==
    /\ op = "TranscriptSegment"
    /\ pc = "raised"
    /\ args[2] = 0 /\ args[3] = 0 /\ args[4] = <<1000>>
    /\ Len(segments) = 1
    /\ segments[1].confidence = <<1000>>
    /\ segments[1].duration = 1

(***************************************************************************)
(* The retry-wrapped operations.  Each is decorated with tenacity's @retry *)
(* (stop, wait, retry, after; reraise is not set), so a call runs          *)
(* tenacity's loop: run the body; on an exception evaluate the retry       *)
(* predicate; when it is false the exception propagates; when it is true   *)
(* call `after`, then either stop (raise RetryError wrapping the attempt)  *)
(* or sleep the wait and run the body again.                               *)
(*                                                                         *)
(* An exception is [type, msg]; msg is the set of lowercase fragments of   *)
(* its message that the classifiers look for.                              *)
(***************************************************************************)
RetryOps ==
    {"get_transcript", "download_pdf", "convert_pdf_with_pymupdf",
     "convert_pdf_with_marker", "scrape_content"}

Exc(type, msg) == [type |-> type, msg |-> msg]

\* the classes an exception type is an instance of (besides Exception)
Bases(type) ==
    {type} \cup
    CASE type \in {"TranscriptsDisabled", "NoTranscriptFound", "VideoUnavailable"}
            -> {"TranscriptExtractorError"}
      [] type = "PdfDownloadError" -> {"PdfConversionError"}
      [] type \in {"HTTPError", "ConnectionError", "Timeout"}
            -> {"RequestException", "OSError"}
      [] type = "FileNotFoundError" -> {"OSError"}
      [] OTHER -> {}

\* isinstance(e, classes)
IsInstance(e, classes) == Bases(e.type) \cap classes # {}

\* the indicators a message fragment contains as substrings
Within(fragment) ==
    {fragment} \cup
    CASE fragment = "api key not found" -> {"not found"}
      [] fragment = "404 client error: not found" -> {"404", "not found"}
      [] fragment = "403 client error: forbidden" -> {"403", "forbidden"}
      [] fragment = "503 server error" -> {"503"}
      [] fragment = "400 client error: bad request" -> {}
      [] fragment = "read timed out. (read timeout=30)" -> {"timeout"}
      [] OTHER -> {}

\* str.lower() of a message fragment
Lower(fragment) ==
    CASE fragment = "Not Found" -> "not found"
      [] fragment = "Timeout" -> "timeout"
      [] fragment = "Corrupted" -> "corrupted"
      [] OTHER -> fragment

\* error_msg = str(exception).lower()
ErrorMsg(e) == {Lower(fragment) : fragment \in e.msg}

\* any(indicator in error_msg for indicator in indicators)
AnyIndicator(msg, indicators) ==
    \E fragment \in msg : Within(fragment) \cap indicators # {}

\* stop=stop_after_attempt(N)
StopAfterAttempt(o) ==
    CASE o = "get_transcript" -> 3
      [] o = "download_pdf" -> 3
      [] o = "convert_pdf_with_pymupdf" -> 2
      [] o = "convert_pdf_with_marker" -> 2
      [] o = "scrape_content" -> 3

\* wait=wait_exponential(multiplier=1, min=.., max=..)
WaitMultiplier == 1

WaitMin(o) ==
    CASE o = "get_transcript" -> 2
      [] o = "download_pdf" -> 2
      [] o = "convert_pdf_with_pymupdf" -> 2
      [] o = "convert_pdf_with_marker" -> 5
      [] o = "scrape_content" -> 5

WaitMax(o) ==
    CASE o = "get_transcript" -> 10
      [] o = "download_pdf" -> 10
      [] o = "convert_pdf_with_pymupdf" -> 5
      [] o = "convert_pdf_with_marker" -> 15
      [] o = "scrape_content" -> 30

Max(a, b) == IF a >= b THEN a ELSE b
Min(a, b) == IF a <= b THEN a ELSE b

\* the exponential wait without its upper clamp
WaitExponentialNoMax(o, n) ==
    Max(Max(0, WaitMin(o)), WaitMultiplier * 2 ^ (n - 1))

\* tenacity wait_exponential.__call__ with exp_base 2
WaitExponential(o, n) ==
    Max(Max(0, WaitMin(o)), Min(WaitMultiplier * 2 ^ (n - 1), WaitMax(o)))

\* converter.py, permanent_error_indicators and transient_error_indicators
ConversionPermanent ==
    {"invalid pdf", "corrupted", "not a pdf", "permission denied",
     "no such file", "invalid format"}

ConversionTransient ==
    {"connection error", "timeout", "network", "temporary failure", "memory",
     "disk space"}

\* the classifier with the two tests in the other order
ShouldRetryConversionTransientFirst(e) ==
    IF AnyIndicator(ErrorMsg(e), ConversionTransient)
    THEN TRUE
    ELSE FALSE

\* converter.py _should_retry_conversion
ShouldRetryConversion(e) ==
    IF AnyIndicator(ErrorMsg(e), ConversionPermanent)
    THEN FALSE
    ELSE IF AnyIndicator(ErrorMsg(e), ConversionTransient)
    THEN TRUE
    ELSE FALSE

\* scraper.py, permanent_error_indicators and transient_error_indicators
ScrapingPermanent ==
    {"invalid url", "not found", "404", "403", "forbidden", "unauthorized",
     "invalid api key", "api key not found"}

ScrapingTransient ==
    {"connection error", "timeout", "network", "503", "502", "500", "429",
     "rate limit", "quota exceeded"}

\* scraper.py _should_retry_scraping
ShouldRetryScraping(e) ==
    IF AnyIndicator(ErrorMsg(e), ScrapingPermanent)
    THEN FALSE
    ELSE IF AnyIndicator(ErrorMsg(e), ScrapingTransient)
    THEN TRUE
    ELSE FALSE

\* the retry= argument of each decorator
RetryPredicate(o, e) ==
    CASE o = "get_transcript" -> IsInstance(e, {"CalledProcessError"})
      [] o = "download_pdf" ->
            IsInstance(e, {"RequestException", "PdfDownloadError"})
      [] o = "convert_pdf_with_pymupdf" -> ShouldRetryConversion(e)
      [] o = "convert_pdf_with_marker" -> ShouldRetryConversion(e)
      [] o = "scrape_content" -> ShouldRetryScraping(e)

\* what can happen inside one run of a body
Causes(o) ==
    CASE o = "get_transcript" ->
            {"ok", "private_video", "video_unavailable", "no_automatic_captions",
             "no_subtitles", "ytdlp_other_exit", "ytdlp_timeout",
             "ytdlp_not_launched", "no_vtt_file", "zero_segments",
             "segment_value_error"}
      [] o = "download_pdf" ->
            {"ok", "http_400", "http_404", "http_403", "http_503",
             "connection_error", "read_timeout", "not_a_pdf"}
      [] o = "convert_pdf_with_pymupdf" ->
            {"ok", "import_error", "corrupted", "no_such_file", "memory",
             "corrupted_memory", "other"}
      [] o = "convert_pdf_with_marker" ->
            {"ok", "output_mkdtemp_fails", "marker_timeout", "exit_memory",
             "exit_corrupted", "exit_other", "no_output_file"}
      [] o = "scrape_content" ->
            {"ok", "empty_url", "invalid_url", "url_parse_fails", "api_404",
             "api_timeout",
             "api_rate_limit", "api_404_timeout", "api_other", "no_response"}
      [] OTHER -> {}

\* the URLs of the model, as the indicator fragments they contain
Urls == {{}, {"404"}, {"timeout"}}

\* TranscriptExtractor.get_transcript, one run of the body
GetTranscriptBody(c) ==
    CASE c = "ok" -> NoExc
      [] c \in {"private_video", "video_unavailable"} ->
            Exc("VideoUnavailable", {})
      [] c \in {"no_automatic_captions", "no_subtitles"} ->
            Exc("NoTranscriptFound", {})
      [] c = "ytdlp_other_exit" -> Exc("TranscriptExtractorError", {})
      [] c = "ytdlp_timeout" -> Exc("TranscriptExtractorError", {})
         \* launching yt-dlp fails: neither except clause matches
      [] c = "ytdlp_not_launched" -> Exc("FileNotFoundError", {"no such file"})
         \* line 353, outside the try of line 360
      [] c = "no_vtt_file" -> Exc("NoTranscriptFound", {})
         \* line 365 raises NoTranscriptFound inside the try; `except
         \* Exception` at 379 catches it and raises TranscriptExtractorError
      [] c = "zero_segments" -> Exc("TranscriptExtractorError", {})
         \* ValueError out of _parse_vtt_content, same except clause
      [] c = "segment_value_error" -> Exc("TranscriptExtractorError", {})

\* PdfConverter.download_pdf: every exception leaves as PdfDownloadError
DownloadPdfBody(c, url) ==
    CASE c = "ok" -> NoExc
      [] c = "http_400" ->
            Exc("PdfDownloadError", url \cup {"400 client error: bad request"})
      [] c = "http_404" ->
            Exc("PdfDownloadError", url \cup {"404 client error: not found"})
      [] c = "http_403" ->
            Exc("PdfDownloadError", url \cup {"403 client error: forbidden"})
      [] c = "http_503" -> Exc("PdfDownloadError", url \cup {"503 server error"})
      [] c = "connection_error" ->
            Exc("PdfDownloadError",
                url \cup {"failed to establish a new connection"})
      [] c = "read_timeout" ->
            Exc("PdfDownloadError",
                url \cup {"read timed out. (read timeout=30)"})
      [] c = "not_a_pdf" -> Exc("PdfDownloadError", url \cup {"not a pdf"})

\* PdfConverter.convert_pdf_with_pymupdf
PyMuPdfBody(c) ==
    CASE c = "ok" -> NoExc
      [] c = "import_error" -> Exc("PdfConversionError", {})
      [] c = "corrupted" -> Exc("PdfConversionError", {"corrupted"})
      [] c = "no_such_file" -> Exc("PdfConversionError", {"no such file"})
      [] c = "memory" -> Exc("PdfConversionError", {"memory"})
      [] c = "corrupted_memory" ->
            Exc("PdfConversionError", {"corrupted", "memory"})
      [] c = "other" -> Exc("PdfConversionError", {})

\* PdfConverter.convert_pdf_with_marker
MarkerBody(c) ==
    CASE c = "ok" -> NoExc
      [] c = "output_mkdtemp_fails" -> Exc("PdfConversionError", {})
      [] c = "marker_timeout" -> Exc("PdfConversionError", {"timed out"})
      [] c = "exit_memory" -> Exc("PdfConversionError", {"memory"})
      [] c = "exit_corrupted" -> Exc("PdfConversionError", {"corrupted"})
      [] c = "exit_other" -> Exc("PdfConversionError", {})
      [] c = "no_output_file" -> Exc("PdfConversionError", {})

\* WebScraper.scrape_content: ValueError is re-raised, anything else leaves
\* as FirecrawlAPIError(f"Failed to scrape content from {url}: {e}")
ScrapeContentBody(c, url) ==
    CASE c = "ok" -> NoExc
      [] c = "empty_url" -> Exc("ValueError", {})
      [] c = "invalid_url" -> Exc("ValueError", url \cup {"invalid url"})
         \* "Invalid URL - no domain found" and any urlparse error leave
         \* validate_url as ValueError(f"Failed to parse URL: {url}")
      [] c = "url_parse_fails" ->
            Exc("ValueError", url \cup {"failed to parse url"})
      [] c = "api_404" -> Exc("FirecrawlAPIError", url \cup {"404"})
      [] c = "api_timeout" -> Exc("FirecrawlAPIError", url \cup {"timeout"})
      [] c = "api_rate_limit" -> Exc("FirecrawlAPIError", url \cup {"rate limit"})
      [] c = "api_404_timeout" ->
            Exc("FirecrawlAPIError", url \cup {"404", "timeout"})
      [] c = "api_other" -> Exc("FirecrawlAPIError", url)
      [] c = "no_response" -> Exc("FirecrawlAPIError", url)

\* the exception one run of the body of o ends with (NoExc: it returns)
Body(o, c, a) ==
    CASE o = "get_transcript" -> GetTranscriptBody(c)
      [] o = "download_pdf" -> DownloadPdfBody(c, a[1])
      [] o = "convert_pdf_with_pymupdf" -> PyMuPdfBody(c)
      [] o = "convert_pdf_with_marker" -> MarkerBody(c)
      [] o = "scrape_content" -> ScrapeContentBody(c, a[1])

\* the arguments of a call that matter to the model
ArgsOf(o) ==
    IF o \in {"download_pdf", "scrape_content"}
    THEN {<<url>> : url \in Urls}
    ELSE {<<>>}

\* _log_retry_attempt, the `after` callback: retry_state.next_action is
\* None whenever it runs (tenacity sets it after `after` and clears it
\* before the next attempt)
LogRetryAttempt(n) ==
    IF n > 1 THEN Append(log, [attempt |-> n, delay |-> <<>>]) ELSE log

\* the temporary directories one run of the body creates, in order of
\* creation: tempfile.TemporaryDirectory() in get_transcript, the two
\* tempfile.mkdtemp calls in convert_pdf_with_marker
TempPrefixes(o, c) ==
    CASE o = "get_transcript" -> <<"tmp">>
      [] o = "convert_pdf_with_marker" ->
            IF c = "output_mkdtemp_fails"
            THEN <<"marker_input_">>
            ELSE <<"marker_input_", "marker_output_">>
      [] OTHER -> <<>>

\* mkdtemp gives every directory a name no other directory has had
MkdTemp(o, c) ==
    {<<TempPrefixes(o, c)[k], mktemp + k>> : k \in 1..Len(TempPrefixes(o, c))}

\* a cleanup that runs only when the body returns
CleanupOnReturn(o, c, made) ==
    IF c = "ok" THEN made ELSE {}

\* the directories removed when a run of the body ends: the `with` block of
\* get_transcript and the `finally` of convert_pdf_with_marker run on
\* return and on every exception
Cleanup(o, c, made) ==
    CASE o = "get_transcript" -> made
      [] o = "convert_pdf_with_marker" -> made
      [] OTHER -> {}

\* the effect of one run of the body on the temporary directories
RunBodyTemp(c) ==
    /\ tmpdirs' = (tmpdirs \cup MkdTemp(op, c))
                        \ Cleanup(op, c, MkdTemp(op, c))
    /\ mktemp' = mktemp + Len(TempPrefixes(op, c))

\* a stop condition that lets one more attempt through
StopReachedOneLate(o, n) == n > StopAfterAttempt(o)

\* stop=stop_after_attempt(N) as tenacity evaluates it
StopReached(o, n) == n >= StopAfterAttempt(o)

InitRetry ==
    /\ lines = <<>>
    /\ i = 0
    /\ segments = <<>>
    /\ pc = "idle"
    /\ spins = 0
    /\ err = ""
    /\ args = <<>>
    /\ op = ""
    /\ attempt = 0
    /\ cause = ""
    /\ last = NoExc
    /\ sleeps = <<>>
    /\ log = <<>>
    /\ conv = ""
    /\ ran = <<>>
    /\ tmpdirs = {}
    /\ mktemp = 0
    /\ out = <<>>

\* the caller calls a decorated operation: the first attempt starts
Call(o, a) ==
    /\ pc = "idle"
    /\ op' = o
    /\ args' = a
    /\ attempt' = 1
    /\ pc' = "attempt"
    /\ UNCHANGED <<vttVars, segments, err, cause, last, sleeps, log, convVars,
                   tmpVars, out>>

\* the body returns: tenacity returns its result to the caller
AttemptReturns(c) ==
    /\ pc = "attempt"
    /\ Body(op, c, args) = NoExc
    /\ cause' = c
    /\ last' = NoExc
    /\ pc' = "returned"
    /\ RunBodyTemp(c)
    /\ UNCHANGED <<vttVars, segments, err, args, op, attempt, sleeps, log,
                   convVars, out>>

\* the body raises and the retry predicate is false: the exception
\* propagates to the caller as it is
AttemptRaises(c) ==
    /\ pc = "attempt"
    /\ Body(op, c, args) # NoExc
    /\ ~RetryPredicate(op, Body(op, c, args))
    /\ cause' = c
    /\ last' = Body(op, c, args)
    /\ err' = Body(op, c, args).type
    /\ pc' = "raised"
    /\ RunBodyTemp(c)
    /\ UNCHANGED <<vttVars, segments, args, op, attempt, sleeps, log, convVars,
                   out>>

\* the body raises, the retry predicate is true and attempts remain:
\* `after` runs, tenacity sleeps the wait and starts the next attempt
AttemptRetried(c) ==
    /\ pc = "attempt"
    /\ Body(op, c, args) # NoExc
    /\ RetryPredicate(op, Body(op, c, args))
    /\ ~StopReached(op, attempt)
    /\ cause' = c
    /\ last' = Body(op, c, args)
    /\ log' = LogRetryAttempt(attempt)
    /\ sleeps' = Append(sleeps, WaitExponential(op, attempt))
    /\ attempt' = attempt + 1
    /\ RunBodyTemp(c)
    /\ UNCHANGED <<vttVars, segments, pc, err, args, op, convVars, out>>

\* the body raises, the retry predicate is true and the stop condition
\* holds: `after` runs and tenacity raises RetryError (reraise is False)
AttemptExhausted(c) ==
    /\ pc = "attempt"
    /\ Body(op, c, args) # NoExc
    /\ RetryPredicate(op, Body(op, c, args))
    /\ StopReached(op, attempt)
    /\ cause' = c
    /\ last' = Body(op, c, args)
    /\ log' = LogRetryAttempt(attempt)
    /\ err' = "RetryError"
    /\ pc' = "raised"
    /\ RunBodyTemp(c)
    /\ UNCHANGED <<vttVars, segments, args, op, attempt, sleeps, convVars, out>>

NextRetry ==
    \/ \E o \in RetryOps : \E a \in ArgsOf(o) : Call(o, a)
    \/ \E c \in Causes(op) : AttemptReturns(c)
    \/ \E c \in Causes(op) : AttemptRaises(c)
    \/ \E c \in Causes(op) : AttemptRetried(c)
    \/ \E c \in Causes(op) : AttemptExhausted(c)

SpecRetry == InitRetry /\ [][NextRetry]_vars

\* C9: when yt-dlp succeeded, a .vtt file was found and parsing it gave no
\* segment, get_transcript fails with NoTranscriptFound.
C9_EmptyParseIsNoTranscriptFound ==
    (op = "get_transcript" /\ pc = "raised" /\ cause = "zero_segments")
        => err = "NoTranscriptFound"

\* C10: when the last permitted attempt failed with a retryable error, the
\* caller receives an error of the kind of that attempt's error.
C10_ExhaustedKeepsErrorKind ==
    (pc = "raised" /\ attempt >= StopAfterAttempt(op)
        /\ RetryPredicate(op, last))
        => err = last.type

\* the message of e contains a keyword of a permanent list
PermanentFailure(e) ==
    AnyIndicator(ErrorMsg(e), ConversionPermanent \cup ScrapingPermanent)

\* C11: an attempt that failed permanently is the last one: the call has
\* ended and delivered that attempt's error (no retry of a 404, a 403 or a
\* download that is not a PDF).
C11_PermanentFailsFast ==
    (pc \in {"attempt", "raised"} /\ last # NoExc /\ PermanentFailure(last))
        => (pc = "raised" /\ err = last.type)

\* C12: in get_transcript a yt-dlp exit that matches no permanent condition
\* is retried: after such a failure either another attempt is under way or
\* the failure was that of the third attempt.
C12_TransientExitRetried ==
    (op = "get_transcript" /\ cause = "ytdlp_other_exit" /\ last # NoExc)
        => (pc = "attempt" \/ attempt = StopAfterAttempt(op))

(***************************************************************************)
(* The two classifiers as pure functions of the error message.  A message  *)
(* is a set of at most MaxFragments fragments: the keywords of the four    *)
(* lists, fragments that contain a keyword as a substring or in another    *)
(* case, and fragments that contain none.                                  *)
(***************************************************************************)
MaxFragments == 2

Fragments ==
    ConversionPermanent \cup ConversionTransient \cup ScrapingPermanent
        \cup ScrapingTransient
        \cup {"Not Found", "Timeout", "Corrupted", "timed out", "boom"}

Messages ==
    UNION {{{f[k] : k \in 1..n} : f \in [1..n -> Fragments]} :
             n \in 0..MaxFragments}

InitClassify ==
    /\ lines = <<>>
    /\ i = 0
    /\ segments = <<>>
    /\ pc = "idle"
    /\ spins = 0
    /\ err = ""
    /\ args \in {<<Exc("Exception", m)>> : m \in Messages}
    /\ op = ""
    /\ attempt = 0
    /\ cause = ""
    /\ last = NoExc
    /\ sleeps = <<>>
    /\ log = <<>>
    /\ conv = ""
    /\ ran = <<>>
    /\ tmpdirs = {}
    /\ mktemp = 0
    /\ out = <<>>

\* _should_retry_conversion(exception)
ShouldRetryConversionCall ==
    /\ pc = "idle"
    /\ op' = "_should_retry_conversion"
    /\ out' = <<ShouldRetryConversion(args[1])>>
    /\ pc' = "returned"
    /\ UNCHANGED <<vttVars, segments, err, args, attempt, cause, last, sleeps,
                   log, convVars, tmpVars>>

\* _should_retry_scraping(exception)
ShouldRetryScrapingCall ==
    /\ pc = "idle"
    /\ op' = "_should_retry_scraping"
    /\ out' = <<ShouldRetryScraping(args[1])>>
    /\ pc' = "returned"
    /\ UNCHANGED <<vttVars, segments, err, args, attempt, cause, last, sleeps,
                   log, convVars, tmpVars>>

NextClassify ==
    \/ ShouldRetryConversionCall
    \/ ShouldRetryScrapingCall

SpecClassify == InitClassify /\ [][NextClassify]_vars

\* the permanent list of the classifier that was called
PermanentListOf(classifier) ==
    IF classifier = "_should_retry_conversion"
    THEN ConversionPermanent
    ELSE ScrapingPermanent

\* C13: a message that contains a keyword of the classifier's permanent
\* list is classified no-retry, whatever else it contains.
C13_PermanentWins ==
    (pc = "returned"
        /\ AnyIndicator(ErrorMsg(args[1]), PermanentListOf(op)))
        => out = <<FALSE>>

\* a message with a permanent and a transient keyword has been classified
C13_Witness ==
    /\ pc = "returned"
    /\ op = "_should_retry_scraping"
    /\ args[1].msg = {"404", "timeout"}
    /\ out = <<FALSE>>

\* the message of e contains no keyword of any list
Unclassified(e) ==
    ~AnyIndicator(ErrorMsg(e),
                  ConversionPermanent \cup ConversionTransient
                      \cup ScrapingPermanent \cup ScrapingTransient)

\* C14: an attempt that failed with an unclassified error is the last one:
\* the call has ended and delivered that error.
C14_UnclassifiedNotRetried ==
    (pc \in {"attempt", "raised"} /\ last # NoExc /\ Unclassified(last))
        => (pc = "raised" /\ err = last.type)

\* C15: one call runs the body at most N times (the attempt budget of the
\* operation); the attempt number grows only by a retry, which follows a
\* failed attempt classified retryable and a backoff sleep; nothing is
\* attempted after an attempt has returned.
C15_AttemptBudget ==
    [][/\ (op' # "" => attempt' <= StopAfterAttempt(op'))
       /\ (attempt' # attempt =>
              \/ (pc = "idle" /\ attempt' = 1)
              \/ /\ pc = "attempt"
                 /\ op' = op
                 /\ attempt' = attempt + 1
                 /\ last' # NoExc
                 /\ RetryPredicate(op, last')
                 /\ Len(sleeps') = Len(sleeps) + 1)
       /\ (pc = "returned" => (pc' # "attempt" /\ attempt' = attempt))]_vars

\* scrape_content has used its whole budget of three attempts
C15_Witness ==
    /\ op = "scrape_content"
    /\ pc = "raised"
    /\ attempt = 3
    /\ Len(sleeps) = 2
    /\ RetryPredicate(op, last)

(***************************************************************************)
(* The backoff of each call site as a pure function of the attempt number: *)
(* tenacity's wait is evaluated for attempts 1, 2, ... MaxAttemptNumber of *)
(* one operation and the delays are recorded in order.                     *)
(***************************************************************************)
MaxAttemptNumber == 20

InitBackoff ==
    /\ lines = <<>>
    /\ i = 0
    /\ segments = <<>>
    /\ pc = "wait"
    /\ spins = 0
    /\ err = ""
    /\ args = <<>>
    /\ op \in RetryOps
    /\ attempt = 1
    /\ cause = ""
    /\ last = NoExc
    /\ sleeps = <<>>
    /\ log = <<>>
    /\ conv = ""
    /\ ran = <<>>
    /\ tmpdirs = {}
    /\ mktemp = 0
    /\ out = <<>>

\* self.wait(retry_state) for the next attempt number
Wait ==
    /\ pc = "wait"
    /\ attempt <= MaxAttemptNumber
    /\ sleeps' = Append(sleeps, WaitExponential(op, attempt))
    /\ attempt' = attempt + 1
    /\ UNCHANGED <<vttVars, segments, pc, err, args, op, cause, last, log,
                   convVars, tmpVars, out>>

NextBackoff == Wait

SpecBackoff == InitBackoff /\ [][NextBackoff]_vars

\* the [min, max] range of each site, in seconds
ClaimRange(o) ==
    CASE o \in {"get_transcript", "download_pdf"} -> <<2, 10>>
      [] o = "convert_pdf_with_pymupdf" -> <<2, 5>>
      [] o = "convert_pdf_with_marker" -> <<5, 15>>
      [] o = "scrape_content" -> <<5, 30>>

\* x clamped into [lo, hi]
Clamp(x, lo, hi) == IF x < lo THEN lo ELSE IF x > hi THEN hi ELSE x

\* C16: the delay after attempt k is 2^(k-1) seconds (multiplier 1) clamped
\* into the site's range; it is never below min, never above max and never
\* smaller than the delay before it.
C16_BackoffClamped ==
    \A k \in 1..Len(sleeps) :
        /\ sleeps[k] = Clamp(2 ^ (k - 1), ClaimRange(op)[1], ClaimRange(op)[2])
        /\ sleeps[k] >= ClaimRange(op)[1]
        /\ sleeps[k] <= ClaimRange(op)[2]
        /\ (k > 1 => sleeps[k - 1] <= sleeps[k])

\* scraping delays have passed through min, the exponential part and max
C16_Witness ==
    /\ op = "scrape_content"
    /\ Len(sleeps) >= 6
    /\ sleeps[1] = 5
    /\ sleeps[4] = 8
    /\ sleeps[6] = 30

\* C17: every retry is logged: for each backoff delay slept there is a log
\* entry that carries the number of the attempt it follows and that delay.
C17_EveryRetryLogged ==
    \A k \in 1..Len(sleeps) :
        \E n \in 1..Len(log) :
            /\ log[n].attempt = k
            /\ log[n].delay = <<sleeps[k]>>

\* C18: every attempt of convert_pdf_with_marker and of get_transcript
\* creates temporary directories of its own and none of them exists any
\* more when the attempt has ended, whether it returned or raised.
C18_AttemptsShareNothing ==
    [][(pc = "attempt" /\ op \in {"convert_pdf_with_marker", "get_transcript"})
          => /\ tmpdirs' = {}
             /\ mktemp' > mktemp
             /\ (op = "convert_pdf_with_marker"
                    /\ cause' # "output_mkdtemp_fails"
                    => mktemp' = mktemp + 2)]_vars

\* a second Marker attempt has failed after a first one was retried
C18_Witness ==
    /\ op = "convert_pdf_with_marker"
    /\ pc = "raised"
    /\ attempt = 2
    /\ mktemp = 4
    /\ tmpdirs = {}

(***************************************************************************)
(* PdfConverter.convert_pdf.  It calls the decorated operations, each of   *)
(* which runs tenacity's loop (the Attempt actions above); conv is the     *)
(* position of convert_pdf while such a call is under way.  args is        *)
(* <<fragments of the source text, kind of source>>.                       *)
(***************************************************************************)
ConvertSources ==
    {<<{}, "file">>, <<{}, "missing_file">>, <<{}, "directory">>,
     <<{}, "invalid_url">>}
        \cup {<<url, "url">> : url \in Urls}

\* the exception a decorated call delivered to convert_pdf
Delivered == IF err = "RetryError" THEN Exc("RetryError", {}) ELSE last

\* an outer handler that lets every exception through as it is
ConvertPdfReraises(e) == e.type

\* the outer handlers of convert_pdf: `except ValueError: raise`, and
\* `except Exception` raising PdfConversionError
ConvertPdfRaises(e) ==
    IF IsInstance(e, {"ValueError"}) THEN "ValueError" ELSE "PdfConversionError"

\* a call of a decorated operation from inside convert_pdf
CallFrom(o) ==
    /\ op' = o
    /\ attempt' = 1
    /\ pc' = "attempt"
    /\ ran' = Append(ran, o)
    /\ err' = ""
    /\ last' = NoExc

\* the NamedTemporaryFile(suffix=".pdf", delete=False) of a URL source
TempFiles == {d \in tmpdirs : d[1] = ".pdf"}

\* convert_pdf(source) up to its first call of a decorated operation
ConvertPdf(source) ==
    /\ pc = "idle"
    /\ conv = ""
    /\ args' = source
    /\ IF source[2] \in {"missing_file", "directory", "invalid_url"}
       THEN \* ValueError from the path tests or validate_url: re-raised
            /\ conv' = "raised"
            /\ err' = ConvertPdfRaises(Exc("ValueError", {}))
            /\ UNCHANGED <<op, attempt, pc, ran, last>>
       ELSE IF source[2] = "file"
       THEN conv' = "pymupdf" /\ CallFrom("convert_pdf_with_pymupdf")
       ELSE conv' = "download" /\ CallFrom("download_pdf")
    /\ UNCHANGED <<vttVars, segments, cause, sleeps, log, tmpVars, out>>

\* download_pdf has ended: write the temporary file and call PyMuPDF, or
\* wrap the failure in PdfConversionError
DownloadEnds ==
    /\ conv = "download"
    /\ pc \in {"returned", "raised"}
    /\ IF pc = "returned"
       THEN /\ conv' = "pymupdf"
            /\ CallFrom("convert_pdf_with_pymupdf")
            /\ tmpdirs' = tmpdirs \cup {<<".pdf", mktemp + 1>>}
            /\ mktemp' = mktemp + 1
       ELSE /\ conv' = "raised"
            /\ err' = ConvertPdfRaises(Delivered)
            /\ UNCHANGED <<op, attempt, pc, ran, last, tmpVars>>
    /\ UNCHANGED <<vttVars, segments, args, cause, sleeps, log, out>>

\* convert_pdf_with_pymupdf has ended: build the result, or fall back to
\* Marker on PdfConversionError, or wrap any other exception
PyMuPdfEnds ==
    /\ conv = "pymupdf"
    /\ pc \in {"returned", "raised"}
    /\ IF pc = "returned"
       THEN /\ conv' = "returned"
            /\ tmpdirs' = tmpdirs \ TempFiles
            /\ UNCHANGED <<op, attempt, pc, ran, last, err, mktemp>>
       ELSE IF IsInstance(Delivered, {"PdfConversionError"})
       THEN /\ conv' = "marker"
            /\ CallFrom("convert_pdf_with_marker")
            /\ UNCHANGED tmpVars
       ELSE /\ conv' = "raised"
            /\ err' = ConvertPdfRaises(Delivered)
            /\ UNCHANGED <<op, attempt, pc, ran, last, tmpVars>>
    /\ UNCHANGED <<vttVars, segments, args, cause, sleeps, log, out>>

\* convert_pdf_with_marker has ended: build the result or wrap the failure
MarkerEnds ==
    /\ conv = "marker"
    /\ pc \in {"returned", "raised"}
    /\ IF pc = "returned"
       THEN /\ conv' = "returned"
            /\ tmpdirs' = tmpdirs \ TempFiles
            /\ UNCHANGED <<err, mktemp>>
       ELSE /\ conv' = "raised"
            /\ err' = ConvertPdfRaises(Delivered)
            /\ UNCHANGED tmpVars
    /\ UNCHANGED <<vttVars, segments, pc, args, op, attempt, cause, last,
                   sleeps, log, ran, out>>

NextConvert ==
    \/ \E source \in ConvertSources : ConvertPdf(source)
    \/ DownloadEnds
    \/ PyMuPdfEnds
    \/ MarkerEnds
    \/ \E c \in Causes(op) : AttemptReturns(c)
    \/ \E c \in Causes(op) : AttemptRaises(c)
    \/ \E c \in Causes(op) : AttemptRetried(c)
    \/ \E c \in Causes(op) : AttemptExhausted(c)

SpecConvert == InitRetry /\ [][NextConvert]_vars

\* C19: when the call of convert_pdf_with_pymupdf inside convert_pdf has
\* ended, convert_pdf goes on to Marker exactly when that call failed: it
\* never reports failure with Marker untried and never runs Marker after
\* PyMuPDF returned.
C19_MarkerIffPyMuPdfFailed ==
    [][(conv = "pymupdf" /\ conv' # "pymupdf")
          => (pc = "raised" <=> conv' = "marker")]_vars

(***************************************************************************)
(* TranscriptExtractor.transcript_to_timed_text as a function of the       *)
(* transcript.  Text is a sequence of characters, the result is the        *)
(* character sequence of the returned string ("\n" is the line break).     *)
(***************************************************************************)
MaxTimedSegs == 2

TimedStarts ==
    {0, 59999, 65000, 65250, 3599000, 3600000, 3725900, 6000000}

TimedTexts == {<<"x">>, <<"x", " ", "y">>}

TimedSegments ==
    {TranscriptSegment(text, start, 1000, NoConfidence) :
        text \in TimedTexts, start \in TimedStarts}

Transcripts == UNION {[1..n -> TimedSegments] : n \in 0..MaxTimedSegs}

DigitChars == <<"0", "1", "2", "3", "4", "5", "6", "7", "8", "9">>

\* str(n) for n >= 0
RECURSIVE Decimal(_)
Decimal(n) ==
    IF n < 10
    THEN <<DigitChars[n + 1]>>
    ELSE Append(Decimal(n \div 10), DigitChars[(n % 10) + 1])

\* the number without padding
FormatUnpadded(n) == Decimal(n)

\* f"{n:02d}"
Format02d(n) ==
    IF Len(Decimal(n)) < 2 THEN <<"0">> \o Decimal(n) ELSE Decimal(n)

\* one iteration of the loop: the line of one segment (start is in ms)
TimedLine(segment) ==
    LET minutes == segment.start \div 60000
        seconds == (segment.start % 60000) \div 1000
        timestamp == <<"[">> \o Format02d(minutes) \o <<":">>
                         \o Format02d(seconds) \o <<"]">>
    IN timestamp \o <<" ">> \o segment.text

\* "\n".join(lines)
RECURSIVE JoinNewline(_)
JoinNewline(ls) ==
    IF ls = <<>> THEN <<>>
    ELSE IF Len(ls) = 1 THEN ls[1]
    ELSE ls[1] \o <<"\n">> \o JoinNewline(Tail(ls))

TranscriptToTimedText(transcript) ==
    JoinNewline([k \in 1..Len(transcript) |-> TimedLine(transcript[k])])

InitTimed ==
    /\ lines = <<>>
    /\ i = 0
    /\ segments \in Transcripts
    /\ pc = "idle"
    /\ spins = 0
    /\ err = ""
    /\ args = <<>>
    /\ op = ""
    /\ attempt = 0
    /\ cause = ""
    /\ last = NoExc
    /\ sleeps = <<>>
    /\ log = <<>>
    /\ conv = ""
    /\ ran = <<>>
    /\ tmpdirs = {}
    /\ mktemp = 0
    /\ out = <<>>

\* extractor.transcript_to_timed_text(transcript)
RenderTimedText ==
    /\ pc = "idle"
    /\ op' = "transcript_to_timed_text"
    /\ out' = TranscriptToTimedText(segments)
    /\ pc' = "rendered"
    /\ UNCHANGED <<vttVars, segments, err, args, attempt, cause, last, sleeps,
                   log, convVars, tmpVars>>

NextTimed == RenderTimedText

SpecTimed == InitTimed /\ [][NextTimed]_vars

\* the position of the first ch in s at or after k (Len(s) + 1 when none)
RECURSIVE FirstAt(_, _, _)
FirstAt(s, ch, k) ==
    IF k > Len(s) THEN Len(s) + 1
    ELSE IF s[k] = ch THEN k
    ELSE FirstAt(s, ch, k + 1)

\* the lines of a string (none for the empty string)
RECURSIVE LinesOf(_)
LinesOf(s) ==
    IF s = <<>> THEN <<>>
    ELSE LET n == FirstAt(s, "\n", 1)
         IN IF n > Len(s) THEN <<s>>
            ELSE <<SubSeq(s, 1, n - 1)>> \o
                   (IF n = Len(s) THEN <<<<>>>> ELSE LinesOf(SubSeq(s, n + 1, Len(s))))

\* the number a sequence of digit characters denotes (-1 when it is none)
RECURSIVE ValueOf(_)
ValueOf(ds) ==
    IF ds = <<>> THEN -1
    ELSE LET d == CHOOSE v \in -1..9 :
                     IF \E w \in 0..9 : DigitChars[w + 1] = ds[Len(ds)]
                     THEN v >= 0 /\ DigitChars[v + 1] = ds[Len(ds)]
                     ELSE v = -1
         IN IF d = -1 THEN -1
            ELSE IF Len(ds) = 1 THEN d
            ELSE IF ValueOf(SubSeq(ds, 1, Len(ds) - 1)) = -1 THEN -1
            ELSE ValueOf(SubSeq(ds, 1, Len(ds) - 1)) * 10 + d

\* the line reads '[MM:SS] text' for this segment
IsTimedLineOf(line, segment) ==
    LET colon == FirstAt(line, ":", 1)
        close == FirstAt(line, "]", 1)
        mm == SubSeq(line, 2, colon - 1)
        ss == SubSeq(line, colon + 1, close - 1)
    IN /\ Len(line) >= 1 /\ line[1] = "["
       /\ colon < close /\ close < Len(line)
       /\ Len(mm) >= 2
       /\ (Len(mm) > 2 => mm[1] # "0")
       /\ ValueOf(mm) = segment.start \div 60000
       /\ Len(ss) = 2
       /\ ValueOf(ss) = (segment.start \div 1000) % 60
       /\ ValueOf(ss) \in 0..59
       /\ line[close + 1] = " "
       /\ SubSeq(line, close + 2, Len(line)) = segment.text

\* C20: the rendering has one line per segment, in order, each of the form
\* '[MM:SS] text' with MM the whole minutes of start in at least two digits
\* (counting past 59, no hours field) and SS the whole seconds left, 00..59.
C20_TimedTextLines ==
    pc = "rendered" =>
        /\ Len(LinesOf(out)) = Len(segments)
        /\ \A k \in 1..Len(segments) :
              IsTimedLineOf(LinesOf(out)[k], segments[k])

\* a transcript with starts 65.0 s and 3725.9 s has been rendered
C20_Witness ==
    /\ pc = "rendered"
    /\ Len(segments) = 2
    /\ segments[1].start = 65000
    /\ segments[2].start = 3725900
    /\ out = <<"[", "0", "1", ":", "0", "5", "]", " ", "x", "\n",
               "[", "6", "2", ":", "0", "5", "]", " ", "x">>

(***************************************************************************)
(* ContentSummarizer.summarize_transcript.  segments is the transcript,    *)
(* args is <<provider, openai_client, anthropic_client,                    *)
(* config.max_transcript_length>>: provider is <<>> for None or <<name>>,  *)
(* the two clients are TRUE when __init__ created them.  ran records the   *)
(* provider API calls with the text they were given.                       *)
(***************************************************************************)
MaxSummarySegs == 2

SummaryTexts == {<<"x">>, <<"x", " ", "y">>}

SummaryTranscripts ==
    UNION {[1..n -> {TranscriptSegment(text, 0, 1000, NoConfidence) :
                        text \in SummaryTexts}] :
             n \in 0..MaxSummarySegs}

ProviderArgs ==
    {<<>>, <<"">>, <<"openai">>, <<"OpenAI">>, <<"anthropic">>,
     <<"ANTHROPIC">>, <<"gemini">>}

\* int(os.getenv("MAX_TRANSCRIPT_LENGTH", "50000"))
MaxTranscriptLengths == {-1, 0, 2, 5, 50000}

\* str.lower() of a provider name
LowerProvider(name) ==
    CASE name = "OpenAI" -> "openai"
      [] name = "ANTHROPIC" -> "anthropic"
      [] OTHER -> name

\* " ".join(segment.text for segment in transcript)
TranscriptToText(transcript) ==
    Join([k \in 1..Len(transcript) |-> transcript[k].text])

\* s[:n]
SliceTo(s, n) ==
    IF n >= 0
    THEN SubSeq(s, 1, Min(n, Len(s)))
    ELSE SubSeq(s, 1, Max(Len(s) + n, 0))

\* the length check of summarize_transcript
TruncateTranscript(text, max_transcript_length) ==
    IF Len(text) > max_transcript_length
    THEN SliceTo(text, max_transcript_length)
    ELSE text

\* a selection that prefers Anthropic when no provider is given
DetermineProviderAnthropicFirst(provider, openai_client, anthropic_client) ==
    IF provider # <<>> /\ provider[1] # "" THEN LowerProvider(provider[1])
    ELSE IF anthropic_client THEN "anthropic"
    ELSE IF openai_client THEN "openai"
    ELSE "ValueError"

\* "Determine provider": the name to dispatch on, or "ValueError" when no
\* provider is configured (`if provider:` is false for None and for "")
DetermineProvider(provider, openai_client, anthropic_client) ==
    IF provider # <<>> /\ provider[1] # "" THEN LowerProvider(provider[1])
    ELSE IF openai_client THEN "openai"
    ELSE IF anthropic_client THEN "anthropic"
    ELSE "ValueError"

\* what a provider API call can do
ApiResults == {"summary", "empty_response", "api_error"}

InitSummarize ==
    /\ lines = <<>>
    /\ i = 0
    /\ segments \in SummaryTranscripts
    /\ pc = "idle"
    /\ spins = 0
    /\ err = ""
    /\ args \in {<<provider, openai_client, anthropic_client, max>> :
                    provider \in ProviderArgs, openai_client \in BOOLEAN,
                    anthropic_client \in BOOLEAN,
                    max \in MaxTranscriptLengths}
    /\ op = ""
    /\ attempt = 0
    /\ cause = ""
    /\ last = NoExc
    /\ sleeps = <<>>
    /\ log = <<>>
    /\ conv = ""
    /\ ran = <<>>
    /\ tmpdirs = {}
    /\ mktemp = 0
    /\ out = <<>>

\* summarize_transcript(transcript, style, provider), with
\* _summarize_with_openai / _summarize_with_anthropic as it calls them
SummarizeTranscript(result) ==
    /\ pc = "idle"
    /\ op' = "summarize_transcript"
    /\ cause' = result
    /\ LET transcript_text ==
               TruncateTranscript(TranscriptToText(segments), args[4])
           provider == DetermineProvider(args[1], args[2], args[3])
           client == IF provider = "openai" THEN args[2] ELSE args[3]
       IN IF provider \notin {"openai", "anthropic"}
          THEN \* no provider configured, or unknown provider
               /\ pc' = "raised"
               /\ err' = "ValueError"
               /\ UNCHANGED <<ran, out>>
          ELSE IF ~client
          THEN \* "... client not initialized - check API key"
               /\ pc' = "raised"
               /\ err' = "ValueError"
               /\ UNCHANGED <<ran, out>>
          ELSE /\ ran' = Append(ran, [provider |-> provider,
                                      text |-> transcript_text])
               /\ IF result = "summary"
                  THEN pc' = "returned" /\ out' = <<"summary">> /\ err' = ""
                  ELSE IF result = "empty_response"
                  THEN pc' = "raised" /\ err' = "ValueError" /\ UNCHANGED out
                  ELSE pc' = "raised" /\ err' = "APIError" /\ UNCHANGED out
    /\ UNCHANGED <<vttVars, segments, args, attempt, last, sleeps, log, conv,
                   tmpVars>>

NextSummarize == \E result \in ApiResults : SummarizeTranscript(result)

SpecSummarize == InitSummarize /\ [][NextSummarize]_vars

\* the providers whose API was called
Called == {ran[k].provider : k \in 1..Len(ran)}

\* C21: a given provider name decides alone, case-insensitively (no other
\* provider is called); with none given OpenAI is used when configured, else
\* Anthropic when configured, else ValueError; any other name is a
\* ValueError with no provider called.  None and "" both count as not given.
C21_ProviderSelection ==
    pc \in {"returned", "raised"} =>
        LET given == args[1] # <<>> /\ args[1][1] # ""
            name == IF given THEN args[1][1] ELSE ""
        IN /\ Len(ran) <= 1
           /\ (given /\ name \in {"openai", "OpenAI"} =>
                  /\ Called \subseteq {"openai"}
                  /\ (args[2] => Called = {"openai"}))
           /\ (given /\ name \in {"anthropic", "ANTHROPIC"} =>
                  /\ Called \subseteq {"anthropic"}
                  /\ (args[3] => Called = {"anthropic"}))
           /\ (given /\ name = "gemini" =>
                  Called = {} /\ err = "ValueError")
           /\ (~given /\ args[2] => Called = {"openai"})
           /\ (~given /\ ~args[2] /\ args[3] => Called = {"anthropic"})
           /\ (~given /\ ~args[2] /\ ~args[3] =>
                  Called = {} /\ err = "ValueError")

\* with no provider given and both clients configured OpenAI was called
C21_Witness ==
    /\ pc = "returned"
    /\ args[1] = <<>>
    /\ args[2]
    /\ args[3]
    /\ Called = {"openai"}

\* C25: the text handed to the provider is never longer than
\* config.max_transcript_length: a longer text is cut to its first
\* max_transcript_length characters, a shorter one is passed unchanged.
C25_TextWithinMaxLength ==
    \A k \in 1..Len(ran) :
        LET full == TranscriptToText(segments)
        IN /\ Len(ran[k].text) <= args[4]
           /\ ran[k].text = IF Len(full) > args[4]
                            THEN SubSeq(full, 1, args[4])
                            ELSE full

\* the visible characters of a text
VisibleText(text) == SelectSeq(text, LAMBDA c : c # " ")

\* C22: the text of a cue is made of the lines after its timestamp line up
\* to the first blank line, the next line with '-->' or the end of input:
\* the cursor stops there, and no '-->' line is taken into the text, so a
\* cue that follows without a blank line is parsed on its own.
C22_TextEndsAtBlankOrArrow ==
    [][Len(segments') = Len(segments) + 1 =>
          /\ i' = TextStop(lines, i + 1)
          /\ VisibleText(segments'[Len(segments')].text)
                = VisibleOf(lines, i + 1, TextStop(lines, i + 1))
          /\ ~Contains(segments'[Len(segments')].text, "-->")]_vars

\* two cues with no blank line between them gave two segments
C22_Witness ==
    /\ pc = "done"
    /\ lines = << <<"t0", " ", "-->", " ", "t3">>, <<"x">>,
                  <<"t1", "-->", "t2", " ", "A">>, <<"<", "c", ">", "y">> >>
    /\ Len(segments) = 2
    /\ segments[1].text = <<"x">>
    /\ segments[2].text = <<"y">>

\* C23: the parser is one forward pass: the cursor never moves back, a
\* segment is added only at a timestamp line and takes its text only from
\* the lines the cursor passes in that step (so no line feeds two segments),
\* earlier segments are left as they are, and a header line or any other
\* line outside a cue adds nothing.
C23_SingleForwardPass ==
    [][/\ i' >= i
       /\ (segments' # segments =>
              /\ i < Len(lines)
              /\ IsCueLine(lines[i + 1])
              /\ i' > i
              /\ Len(segments') = Len(segments) + 1
              /\ SubSeq(segments', 1, Len(segments)) = segments
              /\ VisibleText(segments'[Len(segments')].text)
                    = VisibleOf(lines, i + 1, i'))
       /\ (i < Len(lines) /\ ~IsCueLine(lines[i + 1]) =>
              segments' = segments)]_vars

\* a header line, a stray line and one cue have been scanned
C23_Witness ==
    /\ pc = "done"
    /\ lines = << <<"WEBVTT">>, <<"x">>,
                  <<"t0", " ", "-->", " ", "t3">>, <<"<", "c", ">", "y">> >>
    /\ Len(segments) = 1
    /\ segments[1].text = <<"y">>

\* the runs of the body of scrape_content that end in validate_url
ValidationFailures == {"empty_url", "invalid_url", "url_parse_fails"}

\* C24: a URL validation failure in scrape_content is not retried and
\* reaches the caller as ValueError: after such an attempt the call has
\* ended, at its first attempt, with ValueError.
C24_ValidationErrorNotRetried ==
    (op = "scrape_content" /\ cause \in ValidationFailures /\ last # NoExc)
        => (pc = "raised" /\ err = "ValueError" /\ attempt = 1)

\* C26: whether a failed attempt of scrape_content is retried does not
\* depend on the URL: the decision is the one taken for the same failure
\* at a URL that contains no keyword.
C26_RetryIndependentOfUrl ==
    (op = "scrape_content" /\ pc \in {"attempt", "raised"} /\ last # NoExc)
        => (RetryPredicate(op, last)
               <=> RetryPredicate(op, ScrapeContentBody(cause, {})))

\* C27: with a URL source, the temporary PDF file that holds the download
\* does not exist any more once convert_pdf has returned or raised.
C27_TempFileRemoved ==
    conv \in {"returned", "raised"} => TempFiles = {}

\* C28: every failure of get_transcript reaches the caller as
\* TranscriptExtractorError or one of its subclasses.
C28_OnlyExtractorErrors ==
    (op = "get_transcript" /\ pc = "raised")
        => IsInstance(Exc(err, {}), {"TranscriptExtractorError"})

\* C29: every failure of convert_pdf reaches the caller as ValueError or as
\* PdfConversionError, whichever step failed and however many attempts
\* were used.
C29_OnlyValueOrConversionError ==
    conv = "raised" => err \in {"ValueError", "PdfConversionError"}

\* convert_pdf has failed after download_pdf used up its attempts
C29_Witness ==
    /\ conv = "raised"
    /\ ran = <<"download_pdf">>
    /\ attempt = 3
    /\ err = "PdfConversionError"

\* C30: text_to_transcript raises ValueError when the text is empty or
\* whitespace-only and adds nothing; for any other text it returns exactly
\* one segment holding the trimmed text, start 0 and a duration equal to the
\* number of words, which is at least 1.
C30_OneSegmentOrValueError ==
    [][op' = "text_to_transcript" =>
          LET text == args'[1]
              blank == \A k \in 1..Len(text) : text[k] = " "
          IN IF blank
             THEN /\ pc' = "raised"
                  /\ err' = "ValueError"
                  /\ segments' = segments
             ELSE /\ pc' = "returned"
                  /\ Len(segments') = Len(segments) + 1
                  /\ SubSeq(segments', 1, Len(segments)) = segments
                  /\ LET seg == segments'[Len(segments')]
                     IN /\ seg.text = Strip(text)
                        /\ seg.start = 0
                        /\ seg.duration = WordCount(text) * 1000
                        /\ seg.duration >= 1000
                        /\ seg.confidence = NoConfidence]_vars

\* a text with surrounding whitespace was turned into a one-word segment
\* after a two-word text had been turned into a segment of duration 2
C30_Witness ==
    /\ op = "text_to_transcript"
    /\ pc = "returned"
    /\ args[1] # Strip(args[1])
    /\ Len(segments) = 2
    /\ segments[1].duration = 2000
    /\ segments[2].duration = 1000

====
